---- MODULE Spec2Model ----
(***************************************************************************)
(* Model of the blend-ybx pool indexer (src/src/lib.rs): the on_close      *)
(* ingest handler, which filters the soroban events of a ledger close by   *)
(* contract, dispatches on the event symbol and appends one row per        *)
(* recognized event to the "actions" table, and the retrieve query         *)
(* handler, which reads the table back through equality filters.           *)
(***************************************************************************)
EXTENDS Integers, Sequences, FiniteSets, TLC

(***************************************************************************)
(* Bounds of the model.                                                    *)
(***************************************************************************)
\* events in one ledger close
MaxEvents == 3
\* rows in the table after a ledger close has been processed
MaxRows == 3
\* events in one ledger close of the amount specification
MaxAmountEvents == 1
\* rows in the table of the amount specification
MaxAmountRows == 2

(***************************************************************************)
(* Machine integers.  A 128-bit value is eight 16-bit limbs, least         *)
(* significant first: the four limbs of Int128Parts.lo, then the four of   *)
(* Int128Parts.hi.  A 64-bit value is four limbs.                          *)
(***************************************************************************)
LimbBase == 2^16

Limbs64 == 64 \div 16

Limbs128 == 128 \div 16

ZeroLimbs(n) == [i \in 1..n |-> 0]

\* the two's complement minimum of an n-limb integer (i128::MIN for n = 8)
MinLimbs(n) == [i \in 1..n |-> IF i = n THEN LimbBase \div 2 ELSE 0]

RECURSIVE AddLimbs(_, _, _)
\* a + b + carry, modulo LimbBase^Len(a)
AddLimbs(a, b, carry) ==
    IF a = <<>> THEN <<>>
    ELSE LET s == a[1] + b[1] + carry
         IN  <<s % LimbBase>> \o AddLimbs(Tail(a), Tail(b), s \div LimbBase)

\* two's complement negation modulo LimbBase^Len(a): invert, add one
WrappingNeg(a) ==
    AddLimbs([i \in 1..Len(a) |-> LimbBase - 1 - a[i]], ZeroLimbs(Len(a)), 1)

\* A variant of AsI64 that clamps to the 64-bit range instead of truncating.
AsI64_Saturating(x) ==
    LET low  == SubSeq(x, 1, 64 \div 16)
        neg  == x[Len(x)] >= LimbBase \div 2
        fits == \A i \in (64 \div 16 + 1)..Len(x) :
                   x[i] = (IF low[Len(low)] >= LimbBase \div 2 THEN LimbBase - 1 ELSE 0)
    IN  IF fits THEN low
        ELSE IF neg THEN MinLimbs(64 \div 16)
        ELSE [i \in 1..(64 \div 16) |->
                 IF i = 64 \div 16 THEN LimbBase \div 2 - 1 ELSE LimbBase - 1]

\* `amount as i64`: a narrowing cast keeps the low 64 bits
AsI64(x) == SubSeq(x, 1, Limbs64)

(***************************************************************************)
(* ScVal: the tagged values of topics and payloads.                        *)
(***************************************************************************)
ScSymbol(s) == [t |-> "Symbol", v |-> s]

ScAddress(kind, byte) == [t |-> "Address", v |-> <<kind, byte>>]

ScI128(hi, lo) == [t |-> "I128", v |-> lo \o hi]

ScVec(elems) == [t |-> "Vec", v |-> elems]

\* address_to_alloc_string: the strkey text of an address, "C..." for a
\* contract and "G..." for an account, over the 32 key bytes
address_to_alloc_string(addr) ==
    [prefix |-> IF addr[1] = "Contract" THEN "C" ELSE "G", key |-> addr[2]]

\* env.from_scval::<Symbol> / <Address> / <(i128, i128)> succeed on these
\* shapes and panic on every other
IsSymbol(val) == val.t = "Symbol"

IsAddress(val) == val.t = "Address"

IsI128Pair(val) ==
    /\ val.t = "Vec"
    /\ Len(val.v) = 2
    /\ val.v[1].t = "I128"
    /\ val.v[2].t = "I128"

(***************************************************************************)
(* The program's constants and types.                                      *)
(***************************************************************************)
CONTRACT == "CBP7NO6F7FRDHSOFQBT2L2UWYIZ2PU76JKVRYAQTG3KZSQLYAOKIF2WB"

\* stellar_strkey::Contract::from_string(s).unwrap().0: the contract hash
ContractFromString(s) == [hash |-> s]

\* A variant of ActionTag with the variants of the enum in the other order.
ActionTag_Swapped(action) == IF action = "Borrow" THEN 1 ELSE 0

\* enum Action, #[repr(u32)]: `action as u32`
ActionTag(action) == IF action = "Borrow" THEN 0 ELSE 1

\* A variant of Actions_new with the two ledger arguments exchanged.
Actions_new_SwappedContext(action, timestamp, ledger, asset, amount, source) ==
    [ action    |-> ActionTag(action),
      timestamp |-> ledger,
      ledger    |-> timestamp,
      asset     |-> address_to_alloc_string(asset.v),
      amount    |-> AsI64(amount),
      source    |-> address_to_alloc_string(source.v) ]

\* Actions::new
Actions_new(action, timestamp, ledger, asset, amount, source) ==
    [ action    |-> ActionTag(action),
      timestamp |-> timestamp,
      ledger    |-> ledger,
      asset     |-> address_to_alloc_string(asset.v),
      amount    |-> AsI64(amount),
      source    |-> address_to_alloc_string(source.v) ]

\* A handler result: the table, and whether the invocation trapped.
Done(db) == [trap |-> FALSE, store |-> db]

Trap(db) == [trap |-> TRUE, store |-> db]

\* A variant of Actions_add that does not append a row the table holds.
Actions_add_Dedup(db, header, overflow_checks, action, event, increase) ==
    IF ~IsI128Pair(event.data) THEN Trap(db)
    ELSE
    LET amount == event.data.v[1].v
    IN  IF ~increase /\ amount = MinLimbs(Limbs128) /\ overflow_checks
        THEN Trap(db)
        ELSE
        LET delta == IF increase THEN amount ELSE WrappingNeg(amount)
        IN  IF Len(event.topics) < 3 THEN Trap(db)
            ELSE IF ~IsAddress(event.topics[2]) \/ ~IsAddress(event.topics[3])
            THEN Trap(db)
            ELSE LET row == Actions_new(action, header.timestamp, header.sequence,
                                        event.topics[2], delta, event.topics[3])
                 IN  IF \E i \in DOMAIN db : db[i] = row
                     THEN Done(db)
                     ELSE Done(Append(db, row))

\* A variant of Actions_add that skips an event it cannot decode.
Actions_add_SkipsUndecodable(db, header, overflow_checks, action, event, increase) ==
    IF ~IsI128Pair(event.data) THEN Done(db)
    ELSE
    LET amount == event.data.v[1].v
    IN  IF ~increase /\ amount = MinLimbs(Limbs128) /\ overflow_checks
        THEN Trap(db)
        ELSE
        LET delta == IF increase THEN amount ELSE WrappingNeg(amount)
        IN  IF Len(event.topics) < 3 THEN Done(db)
            ELSE IF ~IsAddress(event.topics[2]) \/ ~IsAddress(event.topics[3])
            THEN Done(db)
            ELSE Done(Append(db,
                     Actions_new(action, header.timestamp, header.sequence,
                                 event.topics[2], delta, event.topics[3])))

\* Actions::add.  Every panic happens before env.put, so a trapping call
\* leaves the table as it found it.
Actions_add(db, header, overflow_checks, action, event, increase) ==
    IF ~IsI128Pair(event.data) THEN Trap(db)
    ELSE
    LET amount == event.data.v[1].v
    IN  IF ~increase /\ amount = MinLimbs(Limbs128) /\ overflow_checks
        THEN Trap(db)
        ELSE
        LET delta == IF increase THEN amount ELSE WrappingNeg(amount)
        IN  IF Len(event.topics) < 3 THEN Trap(db)
            ELSE IF ~IsAddress(event.topics[2]) \/ ~IsAddress(event.topics[3])
            THEN Trap(db)
            ELSE Done(Append(db,
                     Actions_new(action, header.timestamp, header.sequence,
                                 event.topics[2], delta, event.topics[3])))

\* A variant of Dispatch whose repay branch passes increase = true.
Dispatch_RepayIncreases(db, header, overflow_checks, event) ==
    IF Len(event.topics) = 0 THEN Trap(db)
    ELSE IF ~IsSymbol(event.topics[1]) THEN Trap(db)
    ELSE
    LET action == event.topics[1].v
    IN  IF action = "supply_collateral"
        THEN Actions_add(db, header, overflow_checks, "Collateral", event, TRUE)
        ELSE IF action = "withdraw_collateral"
        THEN Actions_add(db, header, overflow_checks, "Collateral", event, FALSE)
        ELSE IF action = "borrow"
        THEN Actions_add(db, header, overflow_checks, "Borrow", event, TRUE)
        ELSE IF action = "repay"
        THEN Actions_add(db, header, overflow_checks, "Borrow", event, TRUE)
        ELSE Done(db)

\* One iteration of the loop of on_close over one searched event.
Dispatch(db, header, overflow_checks, event) ==
    IF Len(event.topics) = 0 THEN Trap(db)
    ELSE IF ~IsSymbol(event.topics[1]) THEN Trap(db)
    ELSE
    LET action == event.topics[1].v
    IN  IF action = "supply_collateral"
        THEN Actions_add(db, header, overflow_checks, "Collateral", event, TRUE)
        ELSE IF action = "withdraw_collateral"
        THEN Actions_add(db, header, overflow_checks, "Collateral", event, FALSE)
        ELSE IF action = "borrow"
        THEN Actions_add(db, header, overflow_checks, "Borrow", event, TRUE)
        ELSE IF action = "repay"
        THEN Actions_add(db, header, overflow_checks, "Borrow", event, FALSE)
        ELSE Done(db)

RECURSIVE RunLoop_Reversed(_, _, _, _)
\* A variant of RunLoop that handles the last event first.
RunLoop_Reversed(db, header, overflow_checks, events) ==
    IF events = <<>> THEN Done(db)
    ELSE LET r == RunLoop_Reversed(db, header, overflow_checks, Tail(events))
         IN  IF r.trap THEN r
             ELSE Dispatch(r.store, header, overflow_checks, Head(events))

RECURSIVE RunLoop(_, _, _, _)
\* `for event in searched_events`: in order, stopping at the first panic
RunLoop(db, header, overflow_checks, events) ==
    IF events = <<>> THEN Done(db)
    ELSE LET r == Dispatch(db, header, overflow_checks, Head(events))
         IN  IF r.trap THEN r
             ELSE RunLoop(r.store, header, overflow_checks, Tail(events))

\* A variant of SearchedEvents that keeps the events of every contract.
SearchedEvents_Unfiltered(events) == events

\* the filter_map of on_close
SearchedEvents(events) ==
    SelectSeq(events, LAMBDA x : x.contract = ContractFromString(CONTRACT))

\* A variant of ReadFilter that leaves the source filter out.
ReadFilter_KindOnly(db, req) ==
    SelectSeq(db, LAMBDA row : row.action = ActionTag(req.kind))

\* retrieve: the rows read through the request's equality filters.  An
\* Option is a sequence: <<>> for None, <<x>> for Some(x).
ReadFilter(db, req) ==
    IF req.address # <<>>
    THEN SelectSeq(db, LAMBDA row : /\ row.action = ActionTag(req.kind)
                                    /\ row.source = req.address[1])
    ELSE SelectSeq(db, LAMBDA row : row.action = ActionTag(req.kind))

(***************************************************************************)
(* Inputs: the ledger closes the host hands to on_close and the requests   *)
(* it hands to retrieve.                                                   *)
(***************************************************************************)
\* 0, as four limbs
W0 == ZeroLimbs(Limbs64)

\* 1 000 000 000 = 0x3B9ACA00 and 500 000 000 = 0x1DCD6500, the payload of
\* the repository's test
Lo1e9 == <<51712, 15258, 0, 0>>

Lo5e8 == <<25856, 7629, 0, 0>>

\* 2^64 - 1, as four limbs
WMax == [i \in 1..Limbs64 |-> LimbBase - 1]

Payload(first, second) == ScVec(<<first, second>>)

TestPayload == Payload(ScI128(W0, Lo1e9), ScI128(W0, Lo5e8))

Asset == ScAddress("Contract", 8)

SourceA == ScAddress("Contract", 1)

SourceB == ScAddress("Account", 2)

Ybx == ContractFromString(CONTRACT)

OtherContract ==
    ContractFromString("CAS3J7GYLGXMF6TDJBBYYSE3HQ6BBSMLNUQ34T6TZMYMW2EVH34XOWMA")

Recognized == {"supply_collateral", "withdraw_collateral", "borrow", "repay"}

Event(contract, topics, data) ==
    [contract |-> contract, topics |-> topics, data |-> data]

\* an event of the pool as the pool emits it
PoolEvent(symbol, source, data) ==
    Event(Ybx, <<ScSymbol(symbol), Asset, source>>, data)

\* Events of the structural specification: well-formed events of the pool
\* and of another contract, unrecognized symbols, and malformed events.
StructuralEvents ==
    {PoolEvent(s, SourceA, TestPayload) : s \in Recognized}
    \cup
    { PoolEvent("supply_collateral", SourceB, TestPayload),
      PoolEvent("flash_loan", SourceA, TestPayload),
      Event(Ybx, <<ScSymbol("flash_loan")>>, TestPayload),
      Event(Ybx, <<ScSymbol("supply_collateral")>>, TestPayload),
      Event(Ybx, <<ScSymbol("borrow"), Asset>>, TestPayload),
      Event(Ybx, <<>>, TestPayload),
      Event(Ybx, <<Asset, Asset, SourceA>>, TestPayload),
      Event(Ybx, <<ScSymbol("withdraw_collateral"), Asset, ScSymbol("nobody")>>,
            TestPayload),
      PoolEvent("repay", SourceA, ScI128(W0, Lo1e9)),
      Event(OtherContract, <<ScSymbol("supply_collateral"), Asset, SourceA>>,
            TestPayload),
      Event(OtherContract, <<>>, ScSymbol("nothing")) }

\* Amounts of the amount specification, as Int128Parts (hi, lo):
\* 0, 1, 10^9, 2^63 - 1, 2^63, 2^64 + 1, -1, -2^63, i128::MIN.
AmountValues ==
    { ScI128(W0, W0),
      ScI128(W0, <<1, 0, 0, 0>>),
      ScI128(W0, Lo1e9),
      ScI128(W0, <<LimbBase - 1, LimbBase - 1, LimbBase - 1, LimbBase \div 2 - 1>>),
      ScI128(W0, <<0, 0, 0, LimbBase \div 2>>),
      ScI128(<<1, 0, 0, 0>>, <<1, 0, 0, 0>>),
      ScI128(WMax, WMax),
      ScI128(WMax, <<0, 0, 0, LimbBase \div 2>>),
      ScI128(<<0, 0, 0, LimbBase \div 2>>, W0) }

\* second elements of the payload tuple
SecondValues == {ScI128(W0, Lo5e8), ScI128(WMax, WMax)}

AmountEvents ==
    {PoolEvent(s, SourceA, Payload(a, b)) :
        s \in Recognized, a \in AmountValues, b \in SecondValues}

\* ledger headers: sequence number and close time
Headers ==
    { [sequence |-> 2000, timestamp |-> 1700000000],
      [sequence |-> 2010, timestamp |-> 1700000050] }

OneHeader == {[sequence |-> 2000, timestamp |-> 1700000000]}

Close(header, events) ==
    [sequence |-> header.sequence, timestamp |-> header.timestamp, events |-> events]

\* TransitionPretty::new(): a ledger close without events
NoClose == Close([sequence |-> 0, timestamp |-> 0], <<>>)

Requests ==
    { [kind |-> k, address |-> a] :
        k \in {"Borrow", "Collateral"},
        a \in { <<>>,
                <<address_to_alloc_string(SourceA.v)>>,
                <<address_to_alloc_string(SourceB.v)>> } }

(***************************************************************************)
(* State.  The host runs one invocation at a time and takes its result     *)
(* before it starts the next.                                              *)
(***************************************************************************)
VARIABLES
    store,          \* the rows of table "actions", in insertion order
    transition,     \* the ledger close of the on_close invocation
    invocation,     \* its result: "ok" or "trap"; "none" when none is held
    db_before,      \* the table as that invocation found it
    request,        \* Option: the request body of the retrieve invocation
    response        \* Option: the rows that retrieve concluded with

vars == <<store, transition, invocation, db_before, request, response>>

Idle == invocation = "none" /\ request = <<>>

Init ==
    /\ store = <<>>
    /\ transition = NoClose
    /\ invocation = "none"
    /\ db_before = <<>>
    /\ request = <<>>
    /\ response = <<>>

\* on_close, on a ledger close drawn from the given events and headers.
\* Integer overflow of `-amount` panics or wraps, as the build decides.
OnClose(events, headers, maxEvents, maxRows) ==
    /\ Idle
    /\ \E n \in 0..maxEvents :
         /\ Len(store) + n <= maxRows
         /\ \E evs \in [1..n -> events], h \in headers, overflow_checks \in BOOLEAN :
              LET r == RunLoop(store, h, overflow_checks, SearchedEvents(evs))
              IN  /\ store' = r.store
                  /\ invocation' = IF r.trap THEN "trap" ELSE "ok"
                  /\ transition' = Close(h, evs)
                  /\ db_before' = store
                  /\ UNCHANGED <<request, response>>

\* retrieve, on a request drawn from Requests
Retrieve ==
    /\ Idle
    /\ \E req \in Requests :
         /\ request' = <<req>>
         /\ response' = <<ReadFilter(store, req)>>
         /\ UNCHANGED <<store, transition, invocation, db_before>>

\* the host takes the result of the invocation
Settle ==
    /\ ~Idle
    /\ transition' = NoClose
    /\ invocation' = "none"
    /\ db_before' = <<>>
    /\ request' = <<>>
    /\ response' = <<>>
    /\ UNCHANGED store

\* Ingest and query over well-formed, unrecognized and malformed events.
Next ==
    \/ OnClose(StructuralEvents, Headers, MaxEvents, MaxRows)
    \/ Retrieve
    \/ Settle

Spec == Init /\ [][Next]_vars

\* Ingest over amounts at and beyond the 64-bit range.
NextAmounts ==
    \/ OnClose(AmountEvents, OneHeader, MaxAmountEvents, MaxAmountRows)
    \/ Settle

SpecAmounts == Init /\ [][NextAmounts]_vars

(***************************************************************************)
(* Vocabulary of the properties.  It is stated over the inputs and the     *)
(* table alone, not over the operators of the handlers.                    *)
(***************************************************************************)
\* an on_close invocation has run and its result is held
Ran == invocation # "none"

\* the rows the table held before the invocation are still its first rows
KeepsOldRows ==
    /\ Len(db_before) <= Len(store)
    /\ SubSeq(store, 1, Len(db_before)) = db_before

\* the rows the invocation appended, in table order
Appended == SubSeq(store, Len(db_before) + 1, Len(store))

IsTarget(e) == e.contract = [hash |-> CONTRACT]

HasSymbol(e) == Len(e.topics) >= 1 /\ e.topics[1].t = "Symbol"

HasRecognizedSymbol(e) == HasSymbol(e) /\ e.topics[1].v \in Recognized

IsIncrease(e) == e.topics[1].v \in {"supply_collateral", "borrow"}

IsCollateral(e) == e.topics[1].v \in {"supply_collateral", "withdraw_collateral"}

\* the topics and payload follow the grammar: two address topics after the
\* symbol, a payload of two signed 128-bit integers
Decodes(e) ==
    /\ Len(e.topics) >= 3
    /\ e.topics[2].t = "Address"
    /\ e.topics[3].t = "Address"
    /\ e.data.t = "Vec"
    /\ Len(e.data.v) = 2
    /\ \A i \in 1..2 : e.data.v[i].t = "I128"

\* the events of the close that belong to the pool, in emission order
TargetEvents == SelectSeq(transition.events, IsTarget)

\* those of them that carry a recognized symbol, in emission order
RecognizedEvents == SelectSeq(TargetEvents, HasRecognizedSymbol)

Count(seq, P(_)) == Cardinality({i \in DOMAIN seq : P(seq[i])})

IsNeg(a) == a[Len(a)] >= LimbBase \div 2

IsZero(a) == \A i \in DOMAIN a : a[i] = 0

RECURSIVE SubLimbs(_, _, _)
\* a - b - borrow, modulo LimbBase^Len(a)
SubLimbs(a, b, borrow) ==
    IF a = <<>> THEN <<>>
    ELSE LET d == a[1] - b[1] - borrow
         IN  IF d < 0
             THEN <<d + LimbBase>> \o SubLimbs(Tail(a), Tail(b), 1)
             ELSE <<d>> \o SubLimbs(Tail(a), Tail(b), 0)

\* the 64-bit value a, widened to 128 bits
SignExtend(a) ==
    a \o [i \in 1..(Limbs128 - Limbs64) |-> IF IsNeg(a) THEN LimbBase - 1 ELSE 0]

\* the 128-bit value d lies within the signed 64-bit range
InI64Range(d) == SignExtend(SubSeq(d, 1, Limbs64)) = d

\* the first element of the payload tuple of event e
FirstOf(e) == e.data.v[1].v

\* the signed 128-bit delta of event e: the first element, or 0 minus it
DeltaOf(e) ==
    IF IsIncrease(e) THEN FirstOf(e)
    ELSE SubLimbs(ZeroLimbs(Limbs128), FirstOf(e), 0)

\* row r records event e of the close: tag, addresses and truncated delta
Records(r, e) ==
    /\ HasRecognizedSymbol(e)
    /\ Len(e.topics) >= 3
    /\ r.action = (IF IsCollateral(e) THEN 1 ELSE 0)
    /\ r.asset.key = e.topics[2].v[2]
    /\ r.source.key = e.topics[3].v[2]
    /\ r.source.prefix = (IF e.topics[3].v[1] = "Account" THEN "G" ELSE "C")
    /\ e.data.t = "Vec" /\ Len(e.data.v) >= 1 /\ e.data.v[1].t = "I128"
    /\ r.amount = SubSeq(DeltaOf(e), 1, Limbs64)

(***************************************************************************)
(* Properties.                                                             *)
(***************************************************************************)
\* C1: on_close appends no row for an event of another contract: the rows
\* appended by one invocation never outnumber the events of the close whose
\* contract is the target, and a close holding only events of other
\* contracts, or no events, leaves the table unchanged and succeeds.
C1_ContractFilter ==
    Ran =>
      /\ KeepsOldRows
      /\ Len(Appended) <= Count(transition.events, IsTarget)
      /\ (\A i \in DOMAIN transition.events : ~IsTarget(transition.events[i]))
            => (store = db_before /\ invocation = "ok")

\* C1 witness: a close holding one recordable event of the pool and events
\* of another contract, one of them without topics, that appended one row.
C1_Witness ==
    /\ invocation = "ok"
    /\ Len(transition.events) = 3
    /\ Count(transition.events, IsTarget) = 1
    /\ \E i \in DOMAIN transition.events :
          ~IsTarget(transition.events[i]) /\ HasRecognizedSymbol(transition.events[i])
    /\ \E i \in DOMAIN transition.events :
          ~IsTarget(transition.events[i]) /\ Len(transition.events[i].topics) = 0
    /\ Len(Appended) = 1

\* whether the first element of event e is a magnitude: above zero
IsMagnitude(e) == ~IsNeg(FirstOf(e)) /\ ~IsZero(FirstOf(e))

\* C2 as claimed: for every recognized symbol and every decoded magnitude
\* the recorded amount is positive for supply_collateral and borrow and
\* negative for withdraw_collateral and repay.
C2_SignForEveryMagnitude ==
    Ran =>
      \A k \in 1..Len(Appended) :
         IsMagnitude(RecognizedEvents[k]) =>
            IF IsIncrease(RecognizedEvents[k])
            THEN ~IsNeg(Appended[k].amount) /\ ~IsZero(Appended[k].amount)
            ELSE IsNeg(Appended[k].amount)

\* C2 as amended: the sign follows the table whenever the signed delta
\* lies within the signed 64-bit range, and the recorded amounts of an
\* increase and of a decrease of one magnitude cancel.
C2_SignWithinRange ==
    Ran =>
      \A k \in 1..Len(Appended) :
         LET e == RecognizedEvents[k]
             a == Appended[k].amount
         IN  (IsMagnitude(e) /\ InI64Range(DeltaOf(e))) =>
                /\ IF IsIncrease(e)
                   THEN ~IsNeg(a) /\ ~IsZero(a) /\ a = SubSeq(FirstOf(e), 1, Limbs64)
                   ELSE /\ IsNeg(a)
                        /\ IsZero(AddLimbs(a, SubSeq(FirstOf(e), 1, Limbs64), 0))

\* C2 witness: a withdrawal of 2^63 - 1 recorded as a negative amount.
C2_Witness ==
    /\ invocation = "ok"
    /\ Len(Appended) = 1
    /\ RecognizedEvents[1].topics[1].v = "withdraw_collateral"
    /\ FirstOf(RecognizedEvents[1]) =
          <<LimbBase - 1, LimbBase - 1, LimbBase - 1, LimbBase \div 2 - 1, 0, 0, 0, 0>>
    /\ Appended[1].amount = <<1, 0, 0, LimbBase \div 2>>

\* C3: the action field of a recorded row is the tag of the table's Action,
\* 1 for supply_collateral and withdraw_collateral, 0 for borrow and repay,
\* and no row carries any other action value.
C3_ActionTag ==
    /\ \A i \in DOMAIN store : store[i].action \in {0, 1}
    /\ Ran =>
         /\ Len(Appended) <= Len(RecognizedEvents)
         /\ \A k \in 1..Len(Appended) :
               Appended[k].action =
                  (CASE RecognizedEvents[k].topics[1].v = "supply_collateral" -> 1
                     [] RecognizedEvents[k].topics[1].v = "withdraw_collateral" -> 1
                     [] RecognizedEvents[k].topics[1].v = "borrow" -> 0
                     [] RecognizedEvents[k].topics[1].v = "repay" -> 0)

\* C3 witness: one close recorded a repay, a withdraw_collateral and a
\* borrow.
C3_Witness ==
    /\ invocation = "ok"
    /\ Len(Appended) = 3
    /\ RecognizedEvents[1].topics[1].v = "repay"
    /\ RecognizedEvents[2].topics[1].v = "withdraw_collateral"
    /\ RecognizedEvents[3].topics[1].v = "borrow"
    /\ <<Appended[1].action, Appended[2].action, Appended[3].action>> = <<0, 1, 0>>

\* an event the claim says is skipped: a symbol outside the table, or fewer
\* than three topics
IsSkippable(e) ==
    \/ Len(e.topics) < 3
    \/ (HasSymbol(e) /\ ~HasRecognizedSymbol(e))

\* an event that is recorded: recognized symbol, decodable topics and
\* payload, and a first element whose negation, if taken, does not overflow
IsRecordable(e) ==
    /\ HasRecognizedSymbol(e)
    /\ Decodes(e)
    /\ (IsIncrease(e) \/ FirstOf(e) # MinLimbs(Limbs128))

\* C4 as claimed: an event of the pool with an unrecognized symbol or with
\* fewer than three topics is skipped silently: in a close whose events of
\* the pool are all recordable or skippable the invocation succeeds and
\* records exactly the recordable events.
C4_SkipsSilently ==
    (Ran /\ \A i \in DOMAIN TargetEvents :
               IsSkippable(TargetEvents[i]) \/ IsRecordable(TargetEvents[i]))
      => /\ invocation = "ok"
         /\ Len(Appended) = Count(TargetEvents, LAMBDA e : ~IsSkippable(e))

\* the rows of seq equal to r
Copies(seq, r) == Cardinality({i \in DOMAIN seq : seq[i] = r})

\* row r satisfies the predicates of request req
Matches(r, req) ==
    /\ r.action = (IF req.kind = "Collateral" THEN 1 ELSE 0)
    /\ (req.address = <<>> \/ r.source = req.address[1])

\* C5: retrieve returns exactly the stored rows whose action is the
\* requested kind and, when an address is given, whose source is that
\* address, each as often as it is stored.  On a table of Collateral rows
\* only, a Collateral query returns all of them and a Borrow query returns
\* the empty sequence, as a response and not as an error.
C5_RetrieveExact ==
    request # <<>> =>
      /\ Len(response) = 1
      /\ \A i \in DOMAIN store :
            Copies(response[1], store[i]) =
               (IF Matches(store[i], request[1]) THEN Copies(store, store[i]) ELSE 0)
      /\ \A i \in DOMAIN response[1] :
            Copies(store, response[1][i]) > 0
      /\ (\A i \in DOMAIN store : store[i].action = 1) =>
            /\ (request[1] = [kind |-> "Collateral", address |-> <<>>])
                  => response[1] = store
            /\ request[1].kind = "Borrow" => response[1] = <<>>

\* C5 witness: a query for the Collateral rows of one source, answered with
\* one row out of a table that also holds a Collateral row of another
\* source and a Borrow row of the same source.
C5_Witness ==
    /\ request = <<[kind |-> "Collateral",
                    address |-> <<[prefix |-> "C", key |-> 1]>>]>>
    /\ Len(store) = 3
    /\ Len(response[1]) = 1
    /\ \E i \in DOMAIN store :
          store[i].action = 1 /\ store[i].source = [prefix |-> "G", key |-> 2]
    /\ \E i \in DOMAIN store :
          store[i].action = 0 /\ store[i].source = [prefix |-> "C", key |-> 1]

\* C6: on_close does no deduplication: a successful invocation appends
\* exactly one row per event of the close that belongs to the pool and
\* carries a recognized symbol, whatever the table already holds.
C6_OneRowPerEvent ==
    invocation = "ok" =>
      /\ KeepsOldRows
      /\ Len(store) =
            Len(db_before)
            + Cardinality({i \in DOMAIN transition.events :
                              /\ IsTarget(transition.events[i])
                              /\ HasRecognizedSymbol(transition.events[i])})

\* C6 witness: the test's third close.  The table held the row of a
\* supply_collateral; the close holds the same supply_collateral and a
\* withdraw_collateral; the table now holds three rows, the supply twice.
C6_Witness ==
    /\ invocation = "ok"
    /\ Len(db_before) = 1
    /\ Len(transition.events) = 2
    /\ transition.events[1] = PoolEvent("supply_collateral", SourceA, TestPayload)
    /\ transition.events[2] = PoolEvent("withdraw_collateral", SourceA, TestPayload)
    /\ Len(store) = 3
    /\ store[1].ledger = 2000
    /\ store[2].ledger = 2010
    /\ [store[2] EXCEPT !.ledger = 2000, !.timestamp = store[1].timestamp] = store[1]

\* C7: the rows of one invocation are appended in emission order: the k-th
\* appended row records the k-th event of the close that belongs to the
\* pool and carries a recognized symbol, also when a later event traps.
C7_EmissionOrder ==
    Ran =>
      /\ KeepsOldRows
      /\ Len(Appended) <= Len(RecognizedEvents)
      /\ \A k \in 1..Len(Appended) : Records(Appended[k], RecognizedEvents[k])

\* C7 witness: a close recorded a withdraw_collateral, then a borrow, then
\* a supply_collateral of another source.
C7_Witness ==
    /\ invocation = "ok"
    /\ Len(Appended) = 3
    /\ RecognizedEvents[1].topics[1].v = "withdraw_collateral"
    /\ RecognizedEvents[2].topics[1].v = "borrow"
    /\ RecognizedEvents[3].topics[3] = SourceB
    /\ Appended[1] # Appended[2] /\ Appended[2] # Appended[3]

\* an event with a recognized symbol whose address topics or payload do
\* not follow the grammar
IsUndecodable(e) ==
    /\ HasRecognizedSymbol(e)
    /\ Len(e.topics) >= 3
    /\ ~Decodes(e)

\* the place in TargetEvents of the first undecodable event
FirstUndecodable ==
    CHOOSE j \in DOMAIN TargetEvents :
       /\ IsUndecodable(TargetEvents[j])
       /\ \A i \in 1..(j - 1) : ~IsUndecodable(TargetEvents[i])

\* C8: an undecodable event with a recognized symbol fails the invocation
\* at that event: the rows of the events before it stay in the table and
\* no row is appended for it or for any later event.
C8_FatalDecode ==
    (Ran /\ \E j \in DOMAIN TargetEvents : IsUndecodable(TargetEvents[j])) =>
      LET before == SubSeq(TargetEvents, 1, FirstUndecodable - 1)
      IN  /\ invocation = "trap"
          /\ KeepsOldRows
          /\ Len(Appended) <= Count(before, IsRecordable)
          /\ (\A i \in DOMAIN before :
                 \/ IsRecordable(before[i])
                 \/ (HasSymbol(before[i]) /\ ~HasRecognizedSymbol(before[i])))
                => /\ Len(Appended) = Count(before, IsRecordable)
                   /\ \A k \in 1..Len(Appended) :
                         Records(Appended[k], SelectSeq(before, IsRecordable)[k])

\* C8 witness: a recordable event, an undecodable one and another
\* recordable one: the invocation trapped and the table gained the row of
\* the first event only.
C8_Witness ==
    /\ invocation = "trap"
    /\ Len(TargetEvents) = 3
    /\ IsRecordable(TargetEvents[1])
    /\ IsUndecodable(TargetEvents[2])
    /\ IsRecordable(TargetEvents[3])
    /\ Len(db_before) = 0
    /\ Len(Appended) = 1
    /\ Records(Appended[1], TargetEvents[1])

\* C9: the stored amount is the low 64 bits of the signed 128-bit delta:
\* equal to the delta when the delta lies within the signed 64-bit range,
\* different from it otherwise; the second tuple element has no part in it.
C9_Truncation ==
    Ran =>
      \A k \in 1..Len(Appended) :
         LET d == DeltaOf(RecognizedEvents[k])
             a == Appended[k].amount
         IN  /\ Len(a) = Limbs64
             /\ \A i \in 1..Limbs64 : a[i] = d[i]
             /\ InI64Range(d) <=> SignExtend(a) = d

\* C9 witness: a supply of 2^64 + 1 stored as 1 and a later repay of
\* -2^63 (delta 2^63) stored as -2^63.
C9_Witness ==
    /\ Ran
    /\ \E k \in 1..Len(Appended) :
          /\ FirstOf(RecognizedEvents[k]) = <<1, 0, 0, 0, 1, 0, 0, 0>>
          /\ IsIncrease(RecognizedEvents[k])
          /\ Appended[k].amount = <<1, 0, 0, 0>>
    /\ \E i \in DOMAIN db_before :
          /\ db_before[i].action = 0
          /\ db_before[i].amount = <<0, 0, 0, LimbBase \div 2>>

\* C10: every row appended by an invocation carries the sequence number
\* and the close time of the ledger close being processed.
C10_LedgerContext ==
    Ran =>
      \A k \in 1..Len(Appended) :
         /\ Appended[k].ledger = transition.sequence
         /\ Appended[k].timestamp = transition.timestamp

\* C10 witness: two rows appended at ledger 2010 to a table that holds a
\* row of ledger 2000.
C10_Witness ==
    /\ invocation = "ok"
    /\ Len(Appended) = 2
    /\ transition.sequence = 2010
    /\ Len(db_before) = 1
    /\ db_before[1].ledger = 2000
    /\ db_before[1].timestamp # transition.timestamp

====
